---- MODULE Spec2Model ----
(***************************************************************************)
(* A model of the Fire API gateway (app/main.py, app/utils.py): the        *)
(* metagraph cache, miner selection, the fan-out race of                   *)
(* post_to_miners_first, the webhook forwarder and the POST                *)
(* /v1/completions handler, as steps of one asyncio event loop.  One       *)
(* action is one stretch of code between two suspension points.            *)
(***************************************************************************)
EXTENDS Integers, Sequences, FiniteSets, TLC

\* ------------------------------------------------------------------ bounds
NumRequests == 3        \* completion requests served during one run
NumConcurrent == 2      \* of these, requests in flight at the same time
TopN == 1               \* miners requested per call (300 in the code), scaled
RaceN == 3              \* the same, where one call is followed through its race
MaxTicks == 3           \* clock advances during one run
StartTime == 1000       \* time.time() at process start, in seconds
MaxWorkers == 5         \* workers of a metagraph handed to get_top_miners
MaxIncentive == 2       \* incentives are 0..MaxIncentive, so that ties occur
MaxSample == 3          \* largest n asked of get_top_miners on its own
MaxBuckets == 3         \* 10 s buckets the clock of generate_header spans
LoopN == 2              \* miners per call where concurrent requests race

\* ------------------------------------------------------- program constants
CACHE_TTL_SECONDS == 300
BucketMs == 10000       \* the 1e4 of utils.py:33, milliseconds

Requests == 1..NumRequests
Concurrent == 1..NumConcurrent
TickSteps == {1, CACHE_TTL_SECONDS - 1}

\* Python's None, and values that are not set yet
None == [kind |-> "None"]
IsNone(v) == v.kind = "None"

\* ----------------------------------------------------------------- helpers
Range(s) == {s[i] : i \in DOMAIN s}

\* "needle in hay" of Python for str, over sequences of words
Contains(hay, needle) ==
    \E i \in 1..(Len(hay) - Len(needle) + 1) :
        SubSeq(hay, i, i + Len(needle) - 1) = needle

InternalServerError == <<"Internal", "Server", "Error">>

\* ------------------------------------------------------------- chain state
\* metagraph.I, metagraph.hotkeys, metagraph.axons of a subnet with m workers
\* as read at the given block; worker indices are 1..m (0..m-1 in Python)
IncentiveOf(i) == (2 * i) % 3
HotkeyOf(i) == <<"hk", i>>
AxonOf(i) == [ip |-> <<"10.0.0", i>>, port |-> 8000 + i]

\* a metagraph whose incentives are the sequence I
MetagraphWith(I, block) ==
    [kind |-> "Metagraph", block |-> block, I |-> I,
     hotkeys |-> [i \in DOMAIN I |-> HotkeyOf(i)],
     axons |-> [i \in DOMAIN I |-> AxonOf(i)]]

MakeMetagraph(m, block) == MetagraphWith([i \in 1..m |-> IncentiveOf(i)], block)

\* sizes of the subnet the chain may report: the eligible half holds n
\* workers for 2n and 2n+1 registered workers, and too few for 2n-1
SubnetSizes == {2 * TopN - 1, 2 * TopN, 2 * TopN + 1}

\* ------------------------------------------------------------------- state
VARIABLES
    now,                 \* time.time(), whole seconds
    ticks,               \* clock advances so far
    metagraph_value,     \* app.state.metagraph_value
    metagraph_ts,        \* app.state.metagraph_ts
    forward_webhook_url, \* app.state.forward_webhook_url
    fetches,             \* calls of subtensor.metagraph(1) so far
    pc,                  \* per request: position of create_completion
    body,                \* per request: the JSON body received
    metagraph,           \* per request: what get_metagraph_cached returned
    fetched,             \* per request: fetches made by its cache read
    miners,              \* per request: result of get_top_miners
    posts,               \* per request: outbound miner POSTs issued
    tasks,               \* per request: the tasks of post_to_miners_first
    completed,           \* per request: attempts in completion order
    taken,               \* per request: completions the loop has consumed
    timedout,            \* per request: as_completed's timeout has fired
    raceResult,          \* per request: return value of post_to_miners_first
    resp,                \* per request: response sent to the client
    whCreated,           \* per request: webhook tasks created
    whTask,              \* per request: state of the _forward_webhook task
    whPayload,           \* per request: payload of the webhook notification
    whPosts,             \* per request: POSTs made to the webhook URL
    whOutcome,           \* per request: how the POST to the webhook ended
    readAt,              \* per request: "now" as read by its cache read
    blocking,            \* the request whose blocking call holds the event loop, or 0
    selection,           \* a call of get_top_miners: its arguments, then its result
    header               \* a call of generate_header: its arguments, then its result

cacheVars == <<metagraph_value, metagraph_ts, fetches>>
clockVars == <<now, ticks>>
raceVars == <<tasks, completed, taken, timedout, raceResult>>
whVars == <<whCreated, whTask, whPayload, whPosts, whOutcome>>
utilVars == <<selection, header>>
reqVars == <<body, metagraph, fetched, miners, posts>>
vars == <<now, ticks, metagraph_value, metagraph_ts, forward_webhook_url,
          fetches, pc, body, metagraph, fetched, miners, posts, tasks,
          completed, taken, timedout, raceResult, resp, whCreated, whTask,
          whPayload, whPosts, whOutcome, readAt, blocking, selection, header>>

\* ------------------------------------------------------ get_metagraph_cached
\* what subtensor.metagraph(1) can do when it is called: raise, or return
\* the subnet as it is on the chain at that moment
ChainError == [kind |-> "Error"]
FetchResults(block) ==
    {ChainError} \cup {MakeMetagraph(m, block) : m \in SubnetSizes}

\* CacheIsStale, were the age compared with > instead of >=
CacheIsOlder(cached_value, last_ts, t) ==
    IsNone(cached_value) \/ (t - last_ts) > CACHE_TTL_SECONDS

\* the condition of the if at main.py:35
CacheIsStale(cached_value, last_ts, t) ==
    IsNone(cached_value) \/ (t - last_ts) >= CACHE_TTL_SECONDS

\* get_metagraph_cached, were the timestamp written before the fetch
get_metagraph_stamped_first(cached_value, last_ts, t, fetchResult) ==
    IF CacheIsStale(cached_value, last_ts, t)
    THEN IF fetchResult.kind = "Error"
         THEN [raised |-> TRUE, ret |-> None, fetched |-> 1,
               value |-> cached_value, ts |-> t]
         ELSE [raised |-> FALSE, ret |-> fetchResult, fetched |-> 1,
               value |-> fetchResult, ts |-> t]
    ELSE [raised |-> FALSE, ret |-> cached_value, fetched |-> 0,
          value |-> cached_value, ts |-> last_ts]

\* get_metagraph_cached, as a function of the cache, the clock and what the
\* chain would answer: value/ts are app.state afterwards, ret the return
\* value, fetched the number of chain reads, raised whether it raised
get_metagraph_cached(cached_value, last_ts, t, fetchResult) ==
    IF CacheIsStale(cached_value, last_ts, t)
    THEN IF fetchResult.kind = "Error"
         THEN [raised |-> TRUE, ret |-> None, fetched |-> 1,
               value |-> cached_value, ts |-> last_ts]
         ELSE [raised |-> FALSE, ret |-> fetchResult, fetched |-> 1,
               value |-> fetchResult, ts |-> t]
    ELSE [raised |-> FALSE, ret |-> cached_value, fetched |-> 0,
          value |-> cached_value, ts |-> last_ts]

\* ------------------------------------------------------------ get_top_miners
RECURSIVE SortedDesc(_, _)
\* sorted(range(len(I)), key=lambda i: I[i], reverse=True): a stable sort,
\* equal incentives keep the order of their indices
SortedDesc(I, rest) ==
    IF rest = {} THEN <<>>
    ELSE LET best == CHOOSE i \in rest :
                        \A j \in rest : I[i] > I[j] \/ (I[i] = I[j] /\ i <= j)
         IN <<best>> \o SortedDesc(I, rest \ {best})

sorted_indices(mg) == SortedDesc(mg.I, DOMAIN mg.I)

\* top_50_percent_count, were the half rounded up
top_half_rounded_up(mg) == (Len(sorted_indices(mg)) + 1) \div 2

top_50_percent_count(mg) == Len(sorted_indices(mg)) \div 2

top_miners_indices(mg) == SubSeq(sorted_indices(mg), 1, top_50_percent_count(mg))

\* random.sample(population, n): every list of n distinct members; it
\* raises ValueError when n is larger than the population
SampleRaises(population, n) == n > Len(population)
\* Samples, were the members drawn with replacement (random.choices)
Choices(population, n) == [1..n -> Range(population)]

Samples(population, n) ==
    {s \in [1..n -> Range(population)] : \A i, j \in 1..n : s[i] = s[j] => i = j}

MinerAddress(axon) == <<"http://", axon.ip, ":", axon.port>>

MakeMiner(mg, i) ==
    [hotkey |-> mg.hotkeys[i], endpoint |-> mg.axons[i],
     address |-> MinerAddress(mg.axons[i])]

\* the miners built from the sampled indices top_miner_uids
get_top_miners(mg, top_miner_uids) ==
    [k \in DOMAIN top_miner_uids |-> MakeMiner(mg, top_miner_uids[k])]

\* -------------------------------------------------------- CompletionRequest
\* JSON bodies a client may send
ValidPrompts == {"hello"}
Bodies ==
    {[kind |-> "Body", has_prompt |-> FALSE, type |-> "absent", prompt |-> ""],
     [kind |-> "Body", has_prompt |-> TRUE, type |-> "array", prompt |-> ""]}
    \cup {[kind |-> "Body", has_prompt |-> TRUE, type |-> "str", prompt |-> p] :
             p \in ValidPrompts}

\* BodyIsValid, were any value accepted for prompt
BodyHasPrompt(b) == b.has_prompt

\* the validation of CompletionRequest: prompt is required and a str
BodyIsValid(b) == b.has_prompt /\ b.type = "str"

\* ----------------------------------------------------------- client replies
ClientResponse(status_code, content_type, content) ==
    [kind |-> "Response", status_code |-> status_code,
     content_type |-> content_type, content |-> content]

JsonType == <<"application/", "json">>
ValidationError == ClientResponse(422, JsonType, <<"detail">>)
BadGateway == ClientResponse(502, JsonType, <<"detail">>)
\* an exception that leaves the handler is answered by the framework
ServerError == ClientResponse(500, <<"text/", "plain", "; charset=utf-8">>,
                              InternalServerError)

\* ------------------------------------------------------------------- Init
\* the state after lifespan() has run; scoring_url may be unset or empty
WebhookUrls == {None, [kind |-> "Url", url |-> ""], [kind |-> "Url", url |-> "http://scoring"]}

InitService ==
    /\ now = StartTime
    /\ ticks = 0
    /\ metagraph_value = None
    /\ metagraph_ts = 0
    /\ forward_webhook_url \in WebhookUrls
    /\ fetches = 0
    /\ pc = [r \in Requests |-> "idle"]
    /\ body = [r \in Requests |-> None]
    /\ metagraph = [r \in Requests |-> None]
    /\ fetched = [r \in Requests |-> 0]
    /\ miners = [r \in Requests |-> <<>>]
    /\ posts = [r \in Requests |-> <<>>]
    /\ tasks = [r \in Requests |-> <<>>]
    /\ completed = [r \in Requests |-> <<>>]
    /\ taken = [r \in Requests |-> 0]
    /\ timedout = [r \in Requests |-> FALSE]
    /\ raceResult = [r \in Requests |-> None]
    /\ resp = [r \in Requests |-> None]
    /\ whCreated = [r \in Requests |-> 0]
    /\ whTask = [r \in Requests |-> "none"]
    /\ whPayload = [r \in Requests |-> None]
    /\ whPosts = [r \in Requests |-> 0]
    /\ whOutcome = [r \in Requests |-> "none"]
    /\ readAt = [r \in Requests |-> 0]
    /\ blocking = 0

\* the service, with no call of the helpers of utils.py under examination
Init == InitService /\ selection = None /\ header = None

\* ------------------------------------------------------------------ clock
Tick(d) ==
    /\ ticks < MaxTicks
    /\ now' = now + d
    /\ ticks' = ticks + 1
    /\ UNCHANGED <<metagraph_value, metagraph_ts, forward_webhook_url, fetches,
                   pc, resp>>
    /\ UNCHANGED <<reqVars, raceVars, whVars>>
    /\ UNCHANGED <<readAt, blocking, utilVars>>

\* -------------------------------------------------------- create_completion
\* a request arrives and its body is validated against CompletionRequest;
\* an invalid body is answered 422 and the handler is never entered
Arrive(r, b) ==
    /\ pc[r] = "idle"
    /\ body' = [body EXCEPT ![r] = b]
    /\ IF BodyIsValid(b)
       THEN /\ pc' = [pc EXCEPT ![r] = "validated"]
            /\ resp' = resp
       ELSE /\ pc' = [pc EXCEPT ![r] = "done"]
            /\ resp' = [resp EXCEPT ![r] = ValidationError]
    /\ UNCHANGED <<cacheVars, clockVars, forward_webhook_url, metagraph,
                   fetched, miners, posts>>
    /\ UNCHANGED <<raceVars, whVars>>
    /\ UNCHANGED <<readAt, blocking, utilVars>>

\* the JSON payload sent to every miner
MinerPayload(prompt) == [step |-> "generator", query |-> prompt]

\* MinerPost, were the header signed for the sender's own hotkey
MinerPostSelfSigned(miner, payload) ==
    [url |-> miner.address \o <<"/v1/chat/completions">>,
     signed_for |-> <<"hk", 0>>, json |-> payload]

\* the POST that _post_to_miner issues for one miner
MinerPost(miner, payload) ==
    [url |-> miner.address \o <<"/v1/chat/completions">>,
     signed_for |-> miner.hotkey, json |-> payload]

\* a task of _post_to_miner: st is pending, done or cancelled; cancelling is
\* set by t.cancel(); net is how client.post ended and result what the
\* coroutine returned; late tells that it ended after the timeout of
\* as_completed had fired
PendingTask == [st |-> "pending", cancelling |-> FALSE, late |-> FALSE,
                net |-> None, result |-> None]

\* the handler from its entry to its first suspension: the cache read (a
\* blocking call of the chain client, after which the event loop is free), the
\* selection of n miners (n is 300 in the code; uids is what random.sample
\* draws), and the creation of one task per miner; an exception raised on
\* the way ends the request
StartCompletion(r, n, fetchResult, uids) ==
    /\ pc[r] = "validated"
    /\ LET c == get_metagraph_cached(metagraph_value, metagraph_ts, now, fetchResult)
       IN /\ metagraph_value' = c.value
          /\ metagraph_ts' = c.ts
          /\ fetches' = fetches + c.fetched
          /\ fetched' = [fetched EXCEPT ![r] = c.fetched]
          /\ metagraph' = [metagraph EXCEPT ![r] = c.ret]
          /\ IF c.raised \/ SampleRaises(top_miners_indices(c.ret), n)
             THEN /\ pc' = [pc EXCEPT ![r] = "done"]
                  /\ resp' = [resp EXCEPT ![r] = ServerError]
                  /\ UNCHANGED <<miners, posts, tasks>>
             ELSE /\ uids \in Samples(top_miners_indices(c.ret), n)
                  /\ LET ms == get_top_miners(c.ret, uids)
                    IN /\ miners' = [miners EXCEPT ![r] = ms]
                       /\ posts' = [posts EXCEPT ![r] =
                              [a \in DOMAIN ms |->
                                  MinerPost(ms[a], MinerPayload(body[r].prompt))]]
                       /\ tasks' = [tasks EXCEPT ![r] = [a \in DOMAIN ms |-> PendingTask]]
                       /\ pc' = [pc EXCEPT ![r] = "racing"]
                       /\ resp' = resp
    /\ UNCHANGED <<clockVars, forward_webhook_url, body>>
    /\ UNCHANGED <<completed, taken, timedout, raceResult, whVars>>
    /\ readAt' = [readAt EXCEPT ![r] = now]
    /\ blocking' = 0
    /\ UNCHANGED utilVars

\* ------------------------------------------------------------ _post_to_miner
\* headers.get(name, default) of an httpx response
HeaderGet(headers, name, default) ==
    IF name \in DOMAIN headers THEN headers[name] ELSE default

NoHeaders == <<>>
ContentType(v) == "content-type" :> v

NetError(exc) == [kind |-> "Error", exc |-> exc]
HttpResponse(status_code, headers, content) ==
    [kind |-> "HttpResponse", status_code |-> status_code,
     headers |-> headers, content |-> content]

\* what client.post may produce for one attempt: a transport error, a
\* timeout, or a response of the miner
NetOutcomes ==
    {NetError("ConnectError"), NetError("ReadTimeout"),
     HttpResponse(200, ContentType(<<"text/", "plain">>), <<"world">>),
     HttpResponse(201, NoHeaders, <<"ok">>),
     HttpResponse(200, ContentType(<<"text/", "html">>),
                  <<"500">> \o InternalServerError),
     HttpResponse(302, NoHeaders, <<"moved">>),
     HttpResponse(404, ContentType(JsonType), <<"detail">>),
     HttpResponse(500, ContentType(<<"text/", "plain">>), InternalServerError)}

\* resp.raise_for_status() of httpx: raises HTTPStatusError unless 2xx
RaisesForStatus(status_code) == ~(200 <= status_code /\ status_code <= 299)

\* the classes "except Exception" catches; asyncio.CancelledError derives
\* from BaseException and is not among them
ExceptionClasses == {"ConnectError", "ReadTimeout", "HTTPStatusError"}
CatchesException(exc) == exc \in ExceptionClasses

\* the tuple _post_to_miner returns when client.post ends with net
post_to_miner(miner, net) ==
    IF net.kind = "Error"
    THEN IF CatchesException(net.exc)
         THEN [kind |-> "Result", miner |-> miner, response |-> None, error |-> net]
         ELSE [kind |-> "Raised", exc |-> net.exc]
    ELSE IF RaisesForStatus(net.status_code)
         THEN IF CatchesException("HTTPStatusError")
              THEN [kind |-> "Result", miner |-> miner, response |-> None,
                    error |-> NetError("HTTPStatusError")]
              ELSE [kind |-> "Raised", exc |-> "HTTPStatusError"]
         ELSE [kind |-> "Result", miner |-> miner, response |-> net, error |-> None]

\* Collect, were a task that finishes after the timeout still collected
CollectAfterTimeout(queue, a, timeout_fired) == Append(queue, a)

\* as_completed collects a finished task unless its timeout has fired
Collect(queue, a, timeout_fired) == IF timeout_fired THEN queue ELSE Append(queue, a)

\* an attempt ends: its task is done and, unless the timeout of
\* as_completed has dropped it, it joins the queue of completed attempts
Complete(r, a, net) ==
    /\ a \in DOMAIN tasks[r]
    /\ tasks[r][a].st = "pending"
    /\ ~tasks[r][a].cancelling
    /\ tasks' = [tasks EXCEPT ![r][a] =
                    [st |-> "done", cancelling |-> FALSE, late |-> timedout[r],
                     net |-> net, result |-> post_to_miner(miners[r][a], net)]]
    /\ completed' = [completed EXCEPT ![r] = Collect(@, a, timedout[r])]
    /\ UNCHANGED <<cacheVars, clockVars, forward_webhook_url, pc, resp>>
    /\ UNCHANGED <<reqVars, taken, timedout, raceResult, whVars>>
    /\ UNCHANGED <<readAt, blocking, utilVars>>

\* a task asked to cancel gets CancelledError thrown in at its await: the
\* task ends cancelled unless the coroutine catches the exception
DeliverCancel(r, a) ==
    /\ a \in DOMAIN tasks[r]
    /\ tasks[r][a].st = "pending"
    /\ tasks[r][a].cancelling
    /\ tasks' = [tasks EXCEPT ![r][a] =
                    IF CatchesException("CancelledError")
                    THEN [@ EXCEPT !.st = "done",
                            !.result = post_to_miner(miners[r][a],
                                                     NetError("CancelledError"))]
                    ELSE [@ EXCEPT !.st = "cancelled"]]
    /\ UNCHANGED <<cacheVars, clockVars, forward_webhook_url, pc, resp>>
    /\ UNCHANGED <<reqVars, completed, taken, timedout, raceResult, whVars>>
    /\ UNCHANGED <<readAt, blocking, utilVars>>

\* ------------------------------------------------------ post_to_miners_first
\* t.done(): finished or cancelled
TaskDone(t) == t.st \in {"done", "cancelled"}

\* CancelRemaining, were the test "if t.done()": cancel() of a task that
\* is done changes nothing
CancelFinished(ts) == ts

\* for t in tasks: if not t.done(): t.cancel()
CancelRemaining(ts) ==
    [a \in DOMAIN ts |->
        IF TaskDone(ts[a]) THEN ts[a] ELSE [ts[a] EXCEPT !.cancelling = TRUE]]

\* CancelOwnTasks, were the tasks of every request cancelled
CancelEveryTask(all_tasks, r) ==
    [q \in DOMAIN all_tasks |-> CancelRemaining(all_tasks[q])]

\* the list "tasks" cancelled is local to the call of post_to_miners_first
\* made for request r (main.py:105-108)
CancelOwnTasks(all_tasks, r) ==
    [all_tasks EXCEPT ![r] = CancelRemaining(@)]

\* Qualifies, without the test of the body text
QualifiesByStatus(res) ==
    /\ ~IsNone(res.response)
    /\ res.response.status_code < 400

\* the test of the if at main.py:115
Qualifies(res) ==
    /\ ~IsNone(res.response)
    /\ res.response.status_code < 400
    /\ ~Contains(res.response.content, InternalServerError)

\* NextCompleted, were the newest completion taken
NewestCompleted(queue, seen) == queue[Len(queue)]

\* the attempt "await coro" yields next: the oldest completion not yet seen
NextCompleted(queue, seen) == queue[seen + 1]

RaceReturn(miner, response) ==
    [kind |-> "Return", miner |-> miner, response |-> response]

\* one turn of the loop over as_completed: the next completed attempt is
\* inspected; a qualifying one cancels the rest and is returned
RaceInspect(r) ==
    /\ pc[r] = "racing"
    /\ taken[r] < Len(completed[r])
    /\ LET res == tasks[r][NextCompleted(completed[r], taken[r])].result
       IN IF Qualifies(res)
          THEN /\ tasks' = CancelOwnTasks(tasks, r)
               /\ raceResult' = [raceResult EXCEPT ![r] =
                                    RaceReturn(res.miner, res.response)]
               /\ pc' = [pc EXCEPT ![r] = "returned"]
               /\ taken' = [taken EXCEPT ![r] = @ + 1]
          ELSE /\ taken' = [taken EXCEPT ![r] = @ + 1]
               /\ UNCHANGED <<tasks, raceResult, pc>>
    /\ UNCHANGED <<cacheVars, clockVars, forward_webhook_url, resp>>
    /\ UNCHANGED <<reqVars, completed, timedout, whVars>>
    /\ UNCHANGED <<readAt, blocking, utilVars>>

\* every attempt has been inspected and none qualified
RaceExhausted(r) ==
    /\ pc[r] = "racing"
    /\ taken[r] = Len(tasks[r])
    /\ tasks' = CancelOwnTasks(tasks, r)
    /\ raceResult' = [raceResult EXCEPT ![r] = RaceReturn(None, None)]
    /\ pc' = [pc EXCEPT ![r] = "returned"]
    /\ UNCHANGED <<cacheVars, clockVars, forward_webhook_url, resp>>
    /\ UNCHANGED <<reqVars, completed, taken, timedout, whVars>>
    /\ UNCHANGED <<readAt, blocking, utilVars>>

\* overall_timeout elapses while attempts are outstanding: as_completed
\* stops collecting them
DeadlineFires(r) ==
    /\ pc[r] = "racing"
    /\ ~timedout[r]
    /\ Len(completed[r]) < Len(tasks[r])
    /\ timedout' = [timedout EXCEPT ![r] = TRUE]
    /\ UNCHANGED <<cacheVars, clockVars, forward_webhook_url, pc, resp>>
    /\ UNCHANGED <<reqVars, tasks, completed, taken, raceResult, whVars>>
    /\ UNCHANGED <<readAt, blocking, utilVars>>

\* the loop finds nothing left but the timeout: asyncio.TimeoutError is
\* swallowed, the finally block cancels, (None, None) is returned
RaceTimedOut(r) ==
    /\ pc[r] = "racing"
    /\ timedout[r]
    /\ taken[r] = Len(completed[r])
    /\ tasks' = CancelOwnTasks(tasks, r)
    /\ raceResult' = [raceResult EXCEPT ![r] = RaceReturn(None, None)]
    /\ pc' = [pc EXCEPT ![r] = "returned"]
    /\ UNCHANGED <<cacheVars, clockVars, forward_webhook_url, resp>>
    /\ UNCHANGED <<reqVars, completed, taken, timedout, whVars>>
    /\ UNCHANGED <<readAt, blocking, utilVars>>

\* ---------------------------------------------------------- _forward_webhook
serialize_miner(miner) ==
    [hotkey |-> miner.hotkey, address |-> miner.address,
     endpoint_ip |-> miner.endpoint.ip, endpoint_port |-> miner.endpoint.port]

WebhookPayload(miner, prompt, upstream_response) ==
    [kind |-> "Payload", miner |-> serialize_miner(miner), prompt |-> prompt,
     response |-> [status_code |-> upstream_response.status_code,
                   content_type |-> HeaderGet(upstream_response.headers,
                                              "content-type", None),
                   text |-> upstream_response.content]]

\* how the POST to the webhook may end; client.post raises on the two errors
WebhookOutcomes == {"2xx", "5xx", "ConnectError", "ReadTimeout"}
WebhookPostRaises(out) == out \in {"ConnectError", "ReadTimeout"}

\* forward_webhook, without the try/except around the POST
forward_webhook_unguarded(out) ==
    IF WebhookPostRaises(out) THEN "raised" ELSE "returned"

\* the end of the _forward_webhook task: "returned", or "raised" when an
\* exception leaves it
forward_webhook(out) ==
    IF WebhookPostRaises(out)
    THEN IF CatchesException(out) THEN "returned" ELSE "raised"
    ELSE "returned"

WebhookFinish(r, out) ==
    /\ whTask[r] = "running"
    /\ whPosts' = [whPosts EXCEPT ![r] = @ + 1]
    /\ whTask' = [whTask EXCEPT ![r] = forward_webhook(out)]
    /\ whOutcome' = [whOutcome EXCEPT ![r] = out]
    /\ UNCHANGED <<cacheVars, clockVars, forward_webhook_url, pc, resp>>
    /\ UNCHANGED <<reqVars, raceVars, whCreated, whPayload>>
    /\ UNCHANGED <<readAt, blocking, utilVars>>

\* ------------------------------------------- create_completion, after the race
\* "if webhook_url:" - None and the empty string are falsy
Truthy(url) == ~IsNone(url) /\ url.url # ""

OctetStream == <<"application/", "octet-stream">>

\* the Content-Type header the framework's Response derives from media_type
ResponseContentType(media_type) ==
    IF media_type[1] = "text/"
       /\ ~\E i \in DOMAIN media_type : media_type[i] = "; charset=utf-8"
    THEN media_type \o <<"; charset=utf-8">>
    ELSE media_type

\* Response(content=upstream_response.content, media_type=content_type)
ProxyResponse(upstream_response) ==
    ClientResponse(200,
        ResponseContentType(HeaderGet(upstream_response.headers,
                                      "content-type", OctetStream)),
        upstream_response.content)

\* DispatchesWebhook, without the test of the URL
DispatchesForWinner(result, url) == ~IsNone(result.response)

\* whether create_completion creates the webhook task
DispatchesWebhook(result, url) == ~IsNone(result.response) /\ Truthy(url)

\* the handler resumes with the result of the race
Respond(r) ==
    /\ pc[r] = "returned"
    /\ pc' = [pc EXCEPT ![r] = "done"]
    /\ IF IsNone(raceResult[r].response)
       THEN /\ resp' = [resp EXCEPT ![r] = BadGateway]
            /\ UNCHANGED whVars
       ELSE /\ resp' = [resp EXCEPT ![r] = ProxyResponse(raceResult[r].response)]
            /\ IF DispatchesWebhook(raceResult[r], forward_webhook_url)
               THEN /\ whCreated' = [whCreated EXCEPT ![r] = @ + 1]
                    /\ whTask' = [whTask EXCEPT ![r] = "running"]
                    /\ whPayload' = [whPayload EXCEPT ![r] =
                          WebhookPayload(raceResult[r].miner, body[r].prompt,
                                         raceResult[r].response)]
                    /\ UNCHANGED <<whPosts, whOutcome>>
               ELSE UNCHANGED whVars
    /\ UNCHANGED <<cacheVars, clockVars, forward_webhook_url>>
    /\ UNCHANGED <<reqVars, raceVars>>
    /\ UNCHANGED <<readAt, blocking, utilVars>>

\* ------------------------------------------------------------ specification
\* the gateway serving concurrent requests
Next ==
    \/ \E r \in Concurrent, b \in Bodies : Arrive(r, b)
    \/ \E r \in Concurrent, f \in FetchResults(fetches + 1),
          uids \in [1..TopN -> 1..(2 * TopN + 1)] : StartCompletion(r, TopN, f, uids)
    \/ \E r \in Concurrent, a \in 1..TopN, net \in NetOutcomes : Complete(r, a, net)
    \/ \E r \in Concurrent, a \in 1..TopN : DeliverCancel(r, a)
    \/ \E r \in Concurrent : RaceInspect(r)
    \/ \E r \in Concurrent : RaceExhausted(r)
    \/ \E r \in Concurrent : DeadlineFires(r)
    \/ \E r \in Concurrent : RaceTimedOut(r)
    \/ \E r \in Concurrent : Respond(r)
    \/ \E r \in Concurrent, out \in WebhookOutcomes : WebhookFinish(r, out)

Spec == Init /\ [][Next]_vars

\* a process started without a scoring_url
InitNoWebhook == Init /\ IsNone(forward_webhook_url)

\* one request racing RaceN miners of a subnet with 2 * RaceN workers, which
\* random.sample lists in ranking order or in the reverse of it

RaceSubnet == MakeMetagraph(2 * RaceN, 1)
Reverse(s) == [i \in DOMAIN s |-> s[Len(s) + 1 - i]]
RaceSamples == {top_miners_indices(RaceSubnet), Reverse(top_miners_indices(RaceSubnet))}

NextRace ==
    \/ \E b \in Bodies : Arrive(1, b)
    \/ \E uids \in RaceSamples : StartCompletion(1, RaceN, RaceSubnet, uids)
    \/ \E a \in 1..RaceN, net \in NetOutcomes : Complete(1, a, net)
    \/ \E a \in 1..RaceN : DeliverCancel(1, a)
    \/ RaceInspect(1)
    \/ RaceExhausted(1)
    \/ DeadlineFires(1)
    \/ RaceTimedOut(1)
    \/ Respond(1)

SpecRace == InitNoWebhook /\ [][NextRace]_vars

\* the cache read by successive requests while the clock advances; the
\* requests are numbered in the order of their arrival
ArrivesNext(r) == \A q \in 1..(r - 1) : pc[q] \notin {"idle", "validated"}

NextCache ==
    \/ \E d \in TickSteps : Tick(d)
    \/ \E r \in Requests, b \in Bodies : ArrivesNext(r) /\ Arrive(r, b)
    \/ \E r \in Requests, f \in FetchResults(fetches + 1),
          uids \in [1..TopN -> 1..(2 * TopN + 1)] : StartCompletion(r, TopN, f, uids)

SpecCache == InitNoWebhook /\ [][NextCache]_vars

\* get_top_miners called on its own: any metagraph of at most MaxWorkers
\* workers with incentives in 0..MaxIncentive, and any n up to MaxSample
IncentiveVectors ==
    UNION {[1..m -> 0..MaxIncentive] : m \in 0..MaxWorkers}

InitMiners ==
    /\ InitService
    /\ IsNone(forward_webhook_url)
    /\ header = None
    /\ \E I \in IncentiveVectors, n \in 0..MaxSample :
          selection = [kind |-> "Call", metagraph |-> MetagraphWith(I, 1), n |-> n]

\* utils.py:11-25: rank, keep the top half, sample n of it, build the miners
CallGetTopMiners(uids) ==
    /\ selection.kind = "Call"
    /\ LET mg == selection.metagraph
           n == selection.n
           population == top_miners_indices(mg)
       IN IF SampleRaises(population, n)
          THEN selection' = [kind |-> "Raised", metagraph |-> mg, n |-> n,
                             top_miners_indices |-> population,
                             exc |-> "ValueError"]
          ELSE /\ uids \in Samples(population, n)
               /\ selection' = [kind |-> "Return", metagraph |-> mg, n |-> n,
                                top_miners_indices |-> population,
                                miners |-> get_top_miners(mg, uids)]
    /\ UNCHANGED <<cacheVars, clockVars, forward_webhook_url, pc, resp, reqVars,
                   raceVars, whVars, readAt, blocking, header>>

\* what random.sample may draw for the call
SampleDraws(sel) ==
    IF SampleRaises(top_miners_indices(sel.metagraph), sel.n)
    THEN {<<>>}
    ELSE Samples(top_miners_indices(sel.metagraph), sel.n)

NextMiners ==
    \E uids \in SampleDraws(selection) : CallGetTopMiners(uids)

SpecMiners == InitMiners /\ [][NextMiners]_vars

\* ---------------------------------------------------------- generate_header
\* CeilDiv, were the quotient rounded to the nearest integer
RoundDiv(a, b) == (a + b \div 2) \div b

\* ceil(a / b) for a >= 0 and b > 0; the quotient of the code is a float,
\* exact for timestamps below 2^53
CeilDiv(a, b) == IF a % b = 0 THEN a \div b ELSE a \div b + 1

\* utils.py:33; the product with 1e4 is a float of integral value
timestamp_interval(timestamp) == CeilDiv(timestamp, BucketMs) * BucketMs

\* str() of an int, and str() of a float of integral value below 1e16, which
\* prints the digits followed by ".0"
IntStr(x) == <<x>>
FloatStr(x) == <<x, ".0">>

\* hotkey.sign(message): opaque, bound to the signer and to the message
Sign(hotkey, message) == [kind |-> "Signature", by |-> hotkey, over |-> message]
Hex0x(signature) == <<"0x", signature>>

\* the arguments signed_for may take: absent, empty, or a hotkey
StrOf(value) == [kind |-> "Str", value |-> value]
SignedForValues == {None, StrOf(<<>>), StrOf(HotkeyOf(1)), StrOf(HotkeyOf(2))}
\* the truth value of signed_for (utils.py:43)
SignedForGiven(signed_for) == ~IsNone(signed_for) /\ signed_for.value # <<>>
SignedForOrEmpty(signed_for) ==
    IF SignedForGiven(signed_for) THEN signed_for.value ELSE <<>>

\* the message of Epistula-Secret-Signature-k: the value, ".", signed_for
SecretMessage(value, signed_for) == FloatStr(value) \o <<".">> \o signed_for.value

\* generate_header (utils.py:27-52), as a function of its arguments, of the
\* clock in milliseconds and of the uuid drawn
generate_header(hotkey, body_bytes, signed_for, timestamp, uuid) ==
    LET interval == timestamp_interval(timestamp)
        base ==
            ("Epistula-Version" :> <<"2">>)
            @@ ("Epistula-Timestamp" :> IntStr(timestamp))
            @@ ("Epistula-Uuid" :> <<uuid>>)
            @@ ("Epistula-Signed-By" :> <<hotkey>>)
            @@ ("Epistula-Request-Signature" :>
                  Hex0x(Sign(hotkey, <<"sha256", body_bytes, ".", uuid, ".">>
                                     \o IntStr(timestamp) \o <<".">>
                                     \o SignedForOrEmpty(signed_for))))
    IN IF SignedForGiven(signed_for)
       THEN base
            @@ ("Epistula-Signed-For" :> signed_for.value)
            @@ ("Epistula-Secret-Signature-0" :>
                  Hex0x(Sign(hotkey, SecretMessage(interval - 1, signed_for))))
            @@ ("Epistula-Secret-Signature-1" :>
                  Hex0x(Sign(hotkey, SecretMessage(interval, signed_for))))
            @@ ("Epistula-Secret-Signature-2" :>
                  Hex0x(Sign(hotkey, SecretMessage(interval + 1, signed_for))))
       ELSE base

\* generate_header called on its own: the clock stands within MaxBuckets
\* buckets of 10 s, on a boundary, next to one, or inside the bucket
BucketOffsets == {0, 1, 2, BucketMs \div 2, BucketMs - 2, BucketMs - 1}
HeaderTimes == {b * BucketMs + d : b \in 1..MaxBuckets, d \in BucketOffsets}
WalletHotkey == <<"hk", 0>>

InitHeader ==
    /\ InitService
    /\ IsNone(forward_webhook_url)
    /\ selection = None
    /\ \E t \in HeaderTimes, sf \in SignedForValues :
          header = [kind |-> "Call", timestamp |-> t, signed_for |-> sf]

CallGenerateHeader(uuid) ==
    /\ header.kind = "Call"
    /\ header' = [kind |-> "Return", timestamp |-> header.timestamp,
                  signed_for |-> header.signed_for,
                  headers |-> generate_header(WalletHotkey, <<"hello">>,
                                              header.signed_for,
                                              header.timestamp, uuid)]
    /\ UNCHANGED <<cacheVars, clockVars, forward_webhook_url, pc, resp, reqVars,
                   raceVars, whVars, readAt, blocking, selection>>

\* a receiver whose clock shows t milliseconds computes the end of its own
\* bucket and looks for it among the three signed values
SecretMessages(headers) ==
    {headers[h][2].over : h \in {"Epistula-Secret-Signature-0",
                                 "Epistula-Secret-Signature-1",
                                 "Epistula-Secret-Signature-2"}}

ReceiverChecks(t) ==
    /\ header.kind = "Return"
    /\ SignedForGiven(header.signed_for)
    /\ header' = [kind |-> "Checked", timestamp |-> header.timestamp,
                  signed_for |-> header.signed_for, headers |-> header.headers,
                  receiver_time |-> t,
                  accepted |-> SecretMessage(timestamp_interval(t), header.signed_for)
                                  \in SecretMessages(header.headers)]
    /\ UNCHANGED <<cacheVars, clockVars, forward_webhook_url, pc, resp, reqVars,
                   raceVars, whVars, readAt, blocking, selection>>

NextHeader ==
    \/ \E uuid \in {"uuid-1", "uuid-2"} : CallGenerateHeader(uuid)
    \/ \E t \in HeaderTimes : ReceiverChecks(t)

SpecHeader == InitHeader /\ [][NextHeader]_vars

\* concurrent requests on the one event loop. subtensor.metagraph(1) is a
\* synchronous call made from the coroutine of the handler (main.py:37, 188):
\* from the moment it is entered until get_metagraph_cached returns, the
\* thread of the event loop is inside it and no other coroutine, callback
\* or timer runs
BeginFetch(r) ==
    /\ pc[r] = "validated"
    /\ blocking = 0
    /\ CacheIsStale(metagraph_value, metagraph_ts, now)
    /\ blocking' = r
    /\ UNCHANGED <<cacheVars, clockVars, forward_webhook_url, pc, resp, reqVars,
                   raceVars, whVars, readAt, utilVars>>

\* the event loop is free to run a coroutine or a callback
LoopFree == blocking = 0

InitLoop == Init /\ forward_webhook_url = [kind |-> "Url", url |-> "http://scoring"]

LoopSubnet == MakeMetagraph(2 * LoopN, fetches + 1)
LoopFetchResults == {ChainError, LoopSubnet}
LoopSamples == {top_miners_indices(LoopSubnet)}
LoopOutcomes ==
    {NetError("ReadTimeout"),
     HttpResponse(200, ContentType(<<"text/", "plain">>), <<"world">>)}
LoopBodies == {b \in Bodies : BodyIsValid(b)}

\* the handler of r passes its cache read: at once when the cache is fresh,
\* at the return of the chain call it entered when the cache is not
LoopStart(r) ==
    /\ IF CacheIsStale(metagraph_value, metagraph_ts, now)
       THEN blocking = r
       ELSE blocking = 0
    /\ \E f \in LoopFetchResults, uids \in LoopSamples :
          StartCompletion(r, LoopN, f, uids)

LoopArrive(r) == LoopFree /\ \E b \in LoopBodies : Arrive(r, b)
LoopComplete(r, a) == LoopFree /\ \E net \in LoopOutcomes : Complete(r, a, net)

NextLoop ==
    \/ \E r \in Concurrent : LoopArrive(r)
    \/ \E r \in Concurrent : BeginFetch(r)
    \/ \E r \in Concurrent : LoopStart(r)
    \/ \E r \in Concurrent, a \in 1..LoopN : LoopComplete(r, a)
    \/ \E r \in Concurrent, a \in 1..LoopN : LoopFree /\ DeliverCancel(r, a)
    \/ \E r \in Concurrent : LoopFree /\ RaceInspect(r)
    \/ \E r \in Concurrent : LoopFree /\ RaceExhausted(r)
    \/ \E r \in Concurrent : LoopFree /\ DeadlineFires(r)
    \/ \E r \in Concurrent : LoopFree /\ RaceTimedOut(r)
    \/ \E r \in Concurrent : LoopFree /\ Respond(r)
    \/ \E r \in Concurrent, out \in {"2xx", "ReadTimeout"} :
          LoopFree /\ WebhookFinish(r, out)

SpecLoop == InitLoop /\ [][NextLoop]_vars

\* ---------------------------------------------------------------- the race
\* has post_to_miners_first of request r returned
Returned(r) == pc[r] \in {"returned", "done"} /\ ~IsNone(raceResult[r])
HasWinner(r) == Returned(r) /\ ~IsNone(raceResult[r].response)

\* an attempt that ended without an error, with a status below 400 and a
\* body free of "Internal Server Error"
AttemptQualifies(t) ==
    /\ t.st = "done"
    /\ t.result.kind = "Result"
    /\ IsNone(t.result.error)
    /\ ~IsNone(t.result.response)
    /\ t.result.response.status_code < 400
    /\ ~Contains(t.result.response.content, InternalServerError)

\* C1: the race returns the miner and response of the qualifying attempt
\* that completed first; every attempt that completed before it did not
\* qualify, and none that completed after it is returned
C1_EarliestQualifyingWins ==
    \A r \in Requests :
        HasWinner(r) =>
            \E k \in 1..Len(completed[r]) :
                /\ AttemptQualifies(tasks[r][completed[r][k]])
                /\ raceResult[r].miner = miners[r][completed[r][k]]
                /\ raceResult[r].response = tasks[r][completed[r][k]].result.response
                /\ \A j \in 1..(k - 1) : ~AttemptQualifies(tasks[r][completed[r][j]])

\* a winner that completed second, after an attempt answered 500 and before
\* one that qualifies as well
C1_Witness ==
    /\ HasWinner(1)
    /\ Len(completed[1]) = 3
    /\ tasks[1][completed[1][1]].net.kind = "HttpResponse"
    /\ tasks[1][completed[1][1]].net.status_code = 500
    /\ raceResult[1].miner = miners[1][completed[1][2]]
    /\ AttemptQualifies(tasks[1][completed[1][3]])

\* C2: a returned response comes from an attempt whose POST raised no
\* transport or timeout error, has a status below 400 and a body without
\* "Internal Server Error"
C2_WinnerQualifies ==
    \A r \in Requests :
        HasWinner(r) =>
            /\ raceResult[r].response.status_code < 400
            /\ ~Contains(raceResult[r].response.content, InternalServerError)
            /\ \E a \in DOMAIN tasks[r] :
                  /\ raceResult[r].miner = miners[r][a]
                  /\ tasks[r][a].st = "done"
                  /\ tasks[r][a].net = raceResult[r].response

\* a winner returned after a status-200 attempt whose body holds
\* "Internal Server Error" had completed and been passed over
C2_Witness ==
    /\ HasWinner(1)
    /\ \E a \in DOMAIN tasks[1] :
          /\ tasks[1][a].st = "done"
          /\ tasks[1][a].net.kind = "HttpResponse"
          /\ tasks[1][a].net.status_code = 200
          /\ Contains(tasks[1][a].net.content, InternalServerError)
          /\ completed[1][1] = a
          /\ raceResult[1].miner # miners[1][a]

\* C3: when no attempt has qualified before the overall timeout fired (or
\* before all attempts ended), the race returns (None, None) and the
\* handler answers 502
C3_DeadlineGivesUp ==
    \A r \in Requests :
        (Returned(r) /\ \A a \in DOMAIN tasks[r] :
                            AttemptQualifies(tasks[r][a]) => tasks[r][a].late)
        => /\ raceResult[r] = RaceReturn(None, None)
           /\ pc[r] = "done" => resp[r].status_code = 502

\* a 502 after the timeout fired while no attempt had timed out on its own,
\* one attempt was still running and one qualified too late
C3_Witness ==
    /\ pc[1] = "done"
    /\ resp[1].status_code = 502
    /\ timedout[1]
    /\ \E a \in DOMAIN tasks[1] : tasks[1][a].late /\ AttemptQualifies(tasks[1][a])
    /\ \E a \in DOMAIN tasks[1] : tasks[1][a].st = "pending" /\ tasks[1][a].cancelling
    /\ \A a \in DOMAIN tasks[1] :
          tasks[1][a].st = "done" => tasks[1][a].net # NetError("ReadTimeout")

\* C4: once the race has returned, every attempt that is not finished has
\* been asked to cancel, and an attempt asked to cancel never completes
C4_LosersCancelled ==
    \A r \in Requests : \A a \in DOMAIN tasks[r] :
        /\ (Returned(r) /\ tasks[r][a].st = "pending") => tasks[r][a].cancelling
        /\ tasks[r][a].cancelling => tasks[r][a].st # "done"

\* a winner returned with one loser already cancelled and one about to be
C4_Witness ==
    /\ HasWinner(1)
    /\ \E a \in DOMAIN tasks[1] : tasks[1][a].st = "cancelled"
    /\ \E a \in DOMAIN tasks[1] : tasks[1][a].st = "pending" /\ tasks[1][a].cancelling

\* ---------------------------------------------------------------- the cache
\* the step in which request r reads the cache
ReadsCache(r) == pc[r] = "validated" /\ pc'[r] # "validated"

\* C5: a read made less than 300 seconds after the last fetch returns the
\* cached snapshot and fetches nothing; a read of an empty cache, or one made
\* 300 seconds or more after the last fetch, fetches exactly once and, when
\* the fetch returns, stores and returns the new snapshot with the time of
\* the read
C5_CacheFreshness ==
    [][\A r \in Requests :
        ReadsCache(r) =>
            IF ~IsNone(metagraph_value) /\ now - metagraph_ts < CACHE_TTL_SECONDS
            THEN /\ fetched'[r] = 0
                 /\ fetches' = fetches
                 /\ metagraph'[r] = metagraph_value
                 /\ metagraph_value' = metagraph_value
                 /\ metagraph_ts' = metagraph_ts
            ELSE /\ fetched'[r] = 1
                 /\ fetches' = fetches + 1
                 /\ ~IsNone(metagraph'[r]) =>
                       /\ metagraph'[r].block = fetches + 1
                       /\ metagraph_value' = metagraph'[r]
                       /\ metagraph_ts' = now]_vars

\* three reads: the first fills the cache, one is served from it, and one
\* made exactly 300 seconds after the first fetches again
C5_Witness ==
    \E a, b, c \in Requests :
        /\ fetched[a] = 1 /\ ~IsNone(metagraph[a]) /\ metagraph[a].block = 1
        /\ fetched[b] = 0 /\ metagraph[b] = metagraph[a]
        /\ fetched[c] = 1 /\ ~IsNone(metagraph[c]) /\ metagraph[c].block = 2
        /\ metagraph_value = metagraph[c]
        /\ metagraph_ts = StartTime + CACHE_TTL_SECONDS

\* -------------------------------------------------------------- the handler
UrlConfigured == ~IsNone(forward_webhook_url) /\ forward_webhook_url.url # ""

\* C6: a finished request has dispatched one webhook notification when its
\* race had a winner and a webhook URL is configured, and none otherwise; the
\* notification carries the winner's hotkey and address and the prompt
C6_WebhookOncePerWinner ==
    \A r \in Requests :
        /\ pc[r] # "done" => whCreated[r] = 0
        /\ pc[r] = "done" =>
              whCreated[r] = IF HasWinner(r) /\ UrlConfigured THEN 1 ELSE 0
        /\ whCreated[r] = 1 =>
              /\ whPayload[r].miner.hotkey = raceResult[r].miner.hotkey
              /\ whPayload[r].miner.address = raceResult[r].miner.address
              /\ whPayload[r].prompt = body[r].prompt
        /\ whCreated[r] = 0 => IsNone(whPayload[r]) /\ whPosts[r] = 0

\* one request answered from a winner with its notification dispatched,
\* another answered 502 with none
C6_Witness ==
    \E r, q \in Requests :
        /\ pc[r] = "done" /\ HasWinner(r) /\ whCreated[r] = 1
        /\ pc[q] = "done" /\ Returned(q) /\ ~HasWinner(q)
        /\ resp[q].status_code = 502 /\ whCreated[q] = 0

\* C7: the webhook task never ends with an exception, posts at most once,
\* starts only when the client's response is already made, and a response
\* once made is never changed
C7_WebhookAbsorbed ==
    /\ [](\A r \in Requests :
            /\ whTask[r] # "raised"
            /\ whPosts[r] <= 1
            /\ whTask[r] # "none" => ~IsNone(resp[r]))
    /\ [][\A r \in Requests : ~IsNone(resp[r]) => resp'[r] = resp[r]]_vars

\* two requests with the same answer for the client: the webhook of one has
\* timed out, that of the other is still in flight
C7_Witness ==
    \E r, q \in Requests :
        /\ whTask[r] = "returned" /\ whOutcome[r] = "ReadTimeout"
        /\ whTask[q] = "running"
        /\ resp[r] = resp[q]

\* C8: a request is answered 422, 502 or with the body of its race's winner
C8_OnlyThreeOutcomes ==
    \A r \in Requests :
        ~IsNone(resp[r]) =>
            \/ resp[r].status_code = 422
            \/ resp[r].status_code = 502
            \/ HasWinner(r) /\ resp[r].content = raceResult[r].response.content

\* C9: the answer to a request won by an upstream response has that
\* response's status code, its content type (application/octet-stream when
\* it has none) and its body
C9_ProxiedVerbatim ==
    \A r \in Requests :
        (pc[r] = "done" /\ HasWinner(r)) =>
            /\ resp[r].status_code = raceResult[r].response.status_code
            /\ resp[r].content_type =
                  HeaderGet(raceResult[r].response.headers, "content-type", OctetStream)
            /\ resp[r].content = raceResult[r].response.content

\* a body without prompt, or with a prompt that is no string
BodyRejected(b) == ~IsNone(b) /\ (~b.has_prompt \/ b.type # "str")

\* C10: a request whose body lacks prompt or has one of the wrong type is
\* answered 422 with nothing done for it - no fetch, no miners, no POST, no
\* task, no webhook - and the step that rejects it leaves the cache as it is
C10_RejectedBeforeWork ==
    /\ [](\A r \in Requests :
            BodyRejected(body[r]) =>
                /\ pc[r] = "done"
                /\ resp[r].status_code = 422
                /\ fetched[r] = 0 /\ IsNone(metagraph[r])
                /\ miners[r] = <<>> /\ posts[r] = <<>> /\ tasks[r] = <<>>
                /\ whCreated[r] = 0 /\ whPosts[r] = 0)
    /\ [][\A r \in Requests :
            (IsNone(body[r]) /\ BodyRejected(body'[r])) =>
                /\ metagraph_value' = metagraph_value
                /\ metagraph_ts' = metagraph_ts
                /\ fetches' = fetches]_vars

\* a request with an array for prompt rejected while the cache holds a
\* snapshot and another request is racing
C10_Witness ==
    \E r, q \in Requests :
        /\ BodyRejected(body[r]) /\ body[r].type = "array"
        /\ resp[r].status_code = 422
        /\ ~IsNone(metagraph_value)
        /\ pc[q] = "racing"

\* ----------------------------------------------------------- get_top_miners
\* the workers of the metagraph that get_top_miners left out of its pool
Excluded(sel) == DOMAIN sel.metagraph.I \ Range(sel.top_miners_indices)

\* C11: the pool get_top_miners samples from has exactly floor(M / 2)
\* members, no worker twice, and every member's incentive is at least the
\* incentive of every worker left out
C11_PoolIsTopHalf ==
    selection.kind \in {"Return", "Raised"} =>
        LET I == selection.metagraph.I
            pool == selection.top_miners_indices
        IN /\ Len(pool) = Len(I) \div 2
           /\ Cardinality(Range(pool)) = Len(I) \div 2
           /\ Range(pool) \subseteq DOMAIN I
           /\ \A i \in Range(pool), j \in Excluded(selection) : I[i] >= I[j]

\* an odd number of workers, a pool of two, and an excluded worker whose
\* incentive ties with a pool member's
C11_Witness ==
    /\ selection.kind = "Return"
    /\ Len(selection.metagraph.I) = 5
    /\ Len(selection.top_miners_indices) = 2
    /\ \E i \in Range(selection.top_miners_indices), j \in Excluded(selection) :
          selection.metagraph.I[i] = selection.metagraph.I[j]

\* the pool members whose hotkey, axon and address make up the miner m
WorkersOf(sel, m) ==
    {i \in Range(sel.top_miners_indices) :
        /\ m.hotkey = sel.metagraph.hotkeys[i]
        /\ m.endpoint = sel.metagraph.axons[i]
        /\ m.address = <<"http://", sel.metagraph.axons[i].ip, ":",
                         sel.metagraph.axons[i].port>>}

\* C12: asked for n miners with n no larger than the pool, get_top_miners
\* returns exactly n miners that stand for n pairwise distinct workers of
\* the pool, each miner holding the hotkey, the axon and the address
\* http://{ip}:{port} of one and the same worker
C12_DistinctPoolMiners ==
    (selection.kind # "Call" /\ selection.n <= Len(selection.top_miners_indices)) =>
        /\ selection.kind = "Return"
        /\ Len(selection.miners) = selection.n
        /\ \E f \in [1..selection.n -> Range(selection.top_miners_indices)] :
              /\ \A k \in 1..selection.n : f[k] \in WorkersOf(selection, selection.miners[k])
              /\ \A k, l \in 1..selection.n : f[k] = f[l] => k = l

\* two miners returned from a pool of two
C12_Witness ==
    /\ selection.kind = "Return"
    /\ selection.n = 2
    /\ Len(selection.miners) = 2
    /\ Len(selection.top_miners_indices) = 2

\* ---------------------------------------------------------- generate_header
\* the message signed under Epistula-Secret-Signature-k
SecretMessageOf(hdr, k) ==
    hdr.headers[CASE k = 0 -> "Epistula-Secret-Signature-0"
                  [] k = 1 -> "Epistula-Secret-Signature-1"
                  [] k = 2 -> "Epistula-Secret-Signature-2"][2].over
\* the number a secret message starts with
SignedValue(message) == message[1]
\* is the message a decimal rendering of the value, then ".", then signed_for
IsValueDotSignedFor(message, value, signed_for) ==
    \E rendering \in {IntStr(value), FloatStr(value)} :
        message = rendering \o <<".">> \o signed_for.value

\* C13: timestamp_interval is the smallest multiple of 10,000 that is not
\* below the millisecond timestamp (the timestamp itself on a boundary, the
\* next boundary one millisecond past it), and the three secret signatures
\* are made over timestamp_interval - 1, timestamp_interval and
\* timestamp_interval + 1, each followed by "." and signed_for
C13_IntervalIsBucketEnd ==
    (header.kind \in {"Return", "Checked"} /\ SignedForGiven(header.signed_for)) =>
        LET t == header.timestamp
            interval == SignedValue(SecretMessageOf(header, 1))
        IN /\ interval % 10000 = 0
           /\ interval >= t
           /\ interval - 10000 < t
           /\ t % 10000 = 0 => interval = t
           /\ t % 10000 = 1 => interval = t + 9999
           /\ IsValueDotSignedFor(SecretMessageOf(header, 0), interval - 1, header.signed_for)
           /\ IsValueDotSignedFor(SecretMessageOf(header, 1), interval, header.signed_for)
           /\ IsValueDotSignedFor(SecretMessageOf(header, 2), interval + 1, header.signed_for)

\* a header signed one millisecond past a boundary
C13_Witness ==
    /\ header.kind = "Return"
    /\ SignedForGiven(header.signed_for)
    /\ header.timestamp % 10000 = 1
    /\ SignedValue(SecretMessageOf(header, 1)) = header.timestamp + 9999

\* C19: a receiver whose clock stands in the signer's 10 s bucket, in the
\* one before or in the one after, and who computes the end of its own
\* bucket as ceil(t / 10000) * 10000, finds that value among the three
\* signed values
C19_AdjacentBucketsCovered ==
    header.kind = "Checked" =>
        LET interval == SignedValue(SecretMessageOf(header, 1))
            own == CeilDiv(header.receiver_time, 10000) * 10000
        IN own \in {interval - 10000, interval, interval + 10000} =>
              /\ own \in {SignedValue(SecretMessageOf(header, k)) : k \in 0..2}
              /\ header.accepted

\* ------------------------------------------------------ qualifying statuses
\* an attempt whose POST ended before the deadline with a response (no
\* transport or timeout error) of status below 400 and a body free of
\* "Internal Server Error"
AnsweredBelow400(t) ==
    /\ t.st = "done"
    /\ ~t.late
    /\ t.net.kind = "HttpResponse"
    /\ t.net.status_code < 400
    /\ ~Contains(t.net.content, InternalServerError)

\* C14: whenever at least one attempt was answered before the deadline with
\* a status below 400, 2xx or not, and without the error text, the race
\* returns a winner and not (None, None)
C14_AnyStatusBelow400Wins ==
    \A r \in Requests :
        (Returned(r) /\ \E a \in DOMAIN tasks[r] : AnsweredBelow400(tasks[r][a]))
        => HasWinner(r)

\* ------------------------------------------------------------ the event loop
\* the cache read of request q: it enters the chain call, or passes
CacheRead(q) == BeginFetch(q) \/ LoopStart(q)

\* the request whose fetch returned last holds what the cache holds
LastWriterWins ==
    \A r \in Requests :
        (/\ fetched[r] = 1
         /\ ~IsNone(metagraph[r])
         /\ \A q \in Requests :
               (fetched[q] = 1 /\ ~IsNone(metagraph[q]))
               => metagraph[q].block <= metagraph[r].block)
        => metagraph_value = metagraph[r] /\ metagraph_ts = readAt[r]

\* C15: the check and the refresh of the cache are not mutually exclusive:
\* while one request has found the cache empty or stale and its fetch is
\* under way, a concurrent request may make the same observation and fetch
\* too; the cache then holds the value and timestamp of the last writer
C15_RefreshNotExclusive ==
    /\ \A r, q \in Concurrent :
          (blocking = r /\ q # r /\ pc[q] = "validated") => ENABLED CacheRead(q)
    /\ LastWriterWins

\* once a fetch has filled the cache, and while it is fresh, no other
\* request fetches: no two requests both bring a snapshot
OneFetchFillsCache ==
    \A r, q \in Concurrent :
        (/\ fetched[r] = 1 /\ ~IsNone(metagraph[r])
         /\ fetched[q] = 1 /\ ~IsNone(metagraph[q])) => r = q

\* is request r waiting for the answer of a network call
WaitsOnNetwork(r) ==
    \/ blocking = r
    \/ pc[r] = "racing" /\ \E a \in DOMAIN tasks[r] : tasks[r][a].st = "pending"
    \/ whTask[r] = "running"

\* C16: the chain fetch, the requests to the miners and the post to the
\* webhook are suspension points: while one request waits on any of them,
\* another request can arrive and the pending attempts of other requests
\* can complete
C16_WaitsDoNotBlock ==
    \A r, q \in Concurrent :
        (q # r /\ WaitsOnNetwork(r)) =>
            /\ pc[q] = "idle" => ENABLED LoopArrive(q)
            /\ \A a \in DOMAIN tasks[q] :
                  (pc[q] = "racing" /\ tasks[q][a].st = "pending"
                                    /\ ~tasks[q][a].cancelling)
                  => ENABLED LoopComplete(q, a)

\* has cancel() been called on the attempt
AskedToCancel(t) == t.cancelling \/ t.st = "cancelled"

\* C17: the cancellation issued when the race of one request resolves
\* touches the attempts of that request only: the step leaves the attempts
\* and the race of every other request as they were, and an attempt is
\* asked to cancel only once the race of its own request has returned
C17_CancelStaysInRequest ==
    /\ [](\A q \in Requests : \A a \in DOMAIN tasks[q] :
             AskedToCancel(tasks[q][a]) => pc[q] \in {"returned", "done"})
    /\ [][\A r, q \in Requests :
             (q # r /\ pc[r] = "racing" /\ pc'[r] = "returned") =>
                 /\ tasks'[q] = tasks[q]
                 /\ completed'[q] = completed[q]
                 /\ taken'[q] = taken[q]
                 /\ timedout'[q] = timedout[q]
                 /\ raceResult'[q] = raceResult[q]]_vars

\* request 1 has a winner and has asked its other attempt to cancel, while
\* request 2 is racing with an attempt in flight that nobody cancelled
C17_Witness ==
    /\ HasWinner(1)
    /\ \E a \in DOMAIN tasks[1] : tasks[1][a].cancelling
    /\ pc[2] = "racing"
    /\ \E a \in DOMAIN tasks[2] :
          tasks[2][a].st = "pending" /\ ~tasks[2][a].cancelling

\* ------------------------------------------------------ one attempt per miner
\* C18: each candidate miner of a request receives exactly one outbound
\* attempt, addressed to its own address and signed with signed_for equal
\* to its own hotkey; an attempt that ended is never started again, so the
\* attempts of a request never outnumber its candidates
C18_OneAttemptPerMiner ==
    /\ [](\A r \in Requests :
             /\ Len(posts[r]) = Len(miners[r])
             /\ Len(tasks[r]) = Len(miners[r])
             /\ \A a \in DOMAIN posts[r] :
                   /\ posts[r][a].url = miners[r][a].address \o <<"/v1/chat/completions">>
                   /\ posts[r][a].signed_for = miners[r][a].hotkey
             /\ \A a, b \in DOMAIN miners[r] :
                   miners[r][a].hotkey = miners[r][b].hotkey => a = b)
    /\ [][\A r \in Requests :
             /\ pc[r] # "validated" => posts'[r] = posts[r] /\ miners'[r] = miners[r]
             /\ \A a \in DOMAIN tasks[r] :
                   tasks[r][a].st # "pending" => tasks'[r][a] = tasks[r][a]]_vars

\* a race that gave up after an attempt had failed: three miners, three
\* posts, the failed attempt still as it ended
C18_Witness ==
    /\ Returned(1)
    /\ ~HasWinner(1)
    /\ Len(miners[1]) = RaceN
    /\ Len(posts[1]) = RaceN
    /\ \E a \in DOMAIN tasks[1] :
          /\ tasks[1][a].st = "done"
          /\ tasks[1][a].result.kind = "Result"
          /\ ~IsNone(tasks[1][a].result.error)

\* ------------------------------------------------------- a fetch that fails
\* the cache read of r asked the chain and the chain call raised
FetchFailed(r) == ReadsCache(r) /\ fetched'[r] = 1 /\ IsNone(metagraph'[r])

\* C20: a chain fetch that fails leaves the cached value and its timestamp
\* as they were, so the cache is still empty or stale for the next request,
\* which fetches again; at every state the cache is either empty with its
\* initial timestamp or holds a snapshot together with the time read by the
\* call that fetched it
C20_FailedFetchKeepsCache ==
    /\ [](/\ IsNone(metagraph_value) => metagraph_ts = 0 /\ \A r \in Requests :
                                           fetched[r] = 1 => IsNone(metagraph[r])
          /\ ~IsNone(metagraph_value) =>
                \E r \in Requests : /\ fetched[r] = 1
                                    /\ metagraph[r] = metagraph_value
                                    /\ readAt[r] = metagraph_ts)
    /\ [][\A r \in Requests :
             FetchFailed(r) =>
                 /\ metagraph_value' = metagraph_value
                 /\ metagraph_ts' = metagraph_ts
                 /\ CacheIsStale(metagraph_value', metagraph_ts', now')
                 /\ \A q \in Requests :
                       (q # r /\ pc'[q] = "validated") =>
                           get_metagraph_cached(metagraph_value', metagraph_ts',
                                                now', ChainError).fetched = 1]_vars

\* a fetch failed on a cache that held an expired snapshot, the snapshot
\* stayed, and the read of the next request fetched the third block
C20_Witness ==
    \E a, b, c \in Requests :
        /\ fetched[a] = 1 /\ ~IsNone(metagraph[a]) /\ metagraph[a].block = 1
        /\ fetched[b] = 1 /\ IsNone(metagraph[b])
        /\ readAt[b] - readAt[a] >= CACHE_TTL_SECONDS
        /\ fetched[c] = 1 /\ ~IsNone(metagraph[c]) /\ metagraph[c].block = 3
        /\ metagraph_value = metagraph[c]
        /\ metagraph_ts = readAt[c]

TypeOK ==
    /\ now \in Nat
    /\ ticks \in 0..MaxTicks
    /\ \A r \in Requests : pc[r] \in {"idle", "validated", "racing", "returned", "done"}
    /\ blocking \in {0} \cup Requests
    /\ selection.kind \in {"None", "Call", "Return", "Raised"}
    /\ header.kind \in {"None", "Call", "Return", "Checked"}

====
